---- MODULE Spec2Model ----
(***************************************************************************)
(* A model of unified_housing_dashboard.py: the module-level load / clean  *)
(* / classify / catalog code (lines 11-28) and the five Dash callbacks     *)
(* (lines 52-173) together with the way Dash dispatches them.              *)
(*                                                                         *)
(* A table is a sequence of columns in file order; a column is a record    *)
(* [name, dtype, cells].  A missing cell is NaN.  Figures are records that *)
(* carry the data the plotting call was given.                             *)
(***************************************************************************)
EXTENDS Integers, Sequences, FiniteSets, TLC

\* ------------------------------------------------------------------ bounds
\* Largest number of rows of an input table.
MaxRows == 3

\* ------------------------------------------------------------- input tables
\* A missing cell (pandas NaN); every stored value is at least 1.
NaN == 0

\* A dropdown that is not in the layout has no value.
None == "None"

\* Column names of the input file, in file order (the order of train.csv).
ColumnOrder == <<"MSSubClass", "Neighborhood", "GrLivArea", "SalePrice">>

Names == {ColumnOrder[i] : i \in 1..Len(ColumnOrder)}

\* The storage types pandas.read_csv infers.
Dtypes == {"object", "int64", "float64", "bool"}

\* The value of the i-th cell of a column when it is not missing: labels of
\* text and boolean columns alternate between two values, numbers are distinct.
CellValue(dtype, i) ==
    IF dtype \in {"object", "bool"} THEN 1 + (i % 2) ELSE i

\* What read_csv can produce for one column of a file with n rows: the column
\* is absent from the file, or it has a dtype and k leading missing cells.
\* A header-only file gives object columns; an integer or boolean column has no
\* missing cell (pandas stores such a column as float64 or object); a column
\* with every cell missing is float64.
ColumnChoices(n) ==
    {[present |-> FALSE, dtype |-> "object", k |-> 0]}
    \cup {[present |-> TRUE, dtype |-> "object", k |-> k] : k \in 0..(IF n = 0 THEN 0 ELSE n - 1)}
    \cup {[present |-> TRUE, dtype |-> d, k |-> k] :
              d \in (IF n = 0 THEN {} ELSE {"float64"}), k \in 0..n}
    \cup {[present |-> TRUE, dtype |-> d, k |-> 0] :
              d \in (IF n = 0 THEN {} ELSE {"int64", "bool"})}

MakeColumn(name, choice, n) ==
    [name  |-> name,
     dtype |-> choice.dtype,
     cells |-> [i \in 1..n |-> IF i <= choice.k THEN NaN ELSE CellValue(choice.dtype, i)]]

RECURSIVE BuildTable(_, _, _)
BuildTable(pick, n, i) ==
    IF i > Len(ColumnOrder) THEN <<>>
    ELSE LET rest == BuildTable(pick, n, i + 1)
             c    == ColumnOrder[i]
         IN  IF pick[c].present THEN <<MakeColumn(c, pick[c], n)>> \o rest ELSE rest

\* df = pd.read_csv("train.csv"): every table of the bounded family.
read_csv(pick, n) == BuildTable(pick, n, 1)

\* ------------------------------------------------------------ table helpers
Range(s) == {s[i] : i \in 1..Len(s)}

Columns(t) == [i \in 1..Len(t) |-> t[i].name]

ColumnSet(t) == {t[i].name : i \in 1..Len(t)}

NRows(t) == IF Len(t) = 0 THEN 0 ELSE Len(t[1].cells)

Col(t, c) == t[CHOOSE i \in 1..Len(t) : t[i].name = c]

Missing(col) == Cardinality({i \in 1..Len(col.cells) : col.cells[i] = NaN})

\* df.isnull().mean(): the fraction missing / rows, NaN for a table of no rows.
IsnullMean(col) == [num |-> Missing(col), den |-> Len(col.cells)]

\* The threshold test with <= in place of <.
BelowHalf_Inclusive(q) == q.den # 0 /\ 2 * q.num <= q.den

\* mean < 0.5; a comparison with NaN is False.
BelowHalf(q) == q.den # 0 /\ 2 * q.num < q.den

\* df.loc[:, df.isnull().mean() < 0.5]
CleanColumns(t) ==
    LET keep(col) == BelowHalf(IsnullMean(col)) IN SelectSeq(t, keep)

\* df.select_dtypes(include=[...]).columns.tolist()
select_dtypes(t, include) ==
    LET sel(col) == col.dtype \in include IN Columns(SelectSeq(t, sel))

ObjectDtypes == {"object"}

NumberDtypes == {"int64", "float64"}

Remove(s, x) == LET keep(e) == e # x IN SelectSeq(s, keep)

\* list.remove(x): removes the first occurrence.
ListRemove(s, x) ==
    LET i == CHOOSE j \in 1..Len(s) : s[j] = x /\ \A h \in 1..(j - 1) : s[h] # x
    IN  [j \in 1..(Len(s) - 1) |-> IF j < i THEN s[j] ELSE s[j + 1]]

\* Lines 17 and 21-22: the categorical list after the MSSubClass override.
CategoricalCols(t) ==
    LET cat == select_dtypes(t, ObjectDtypes)
    IN  IF "MSSubClass" \in ColumnSet(t) /\ "MSSubClass" \notin Range(cat)
        THEN Append(cat, "MSSubClass") ELSE cat

\* The override without its numerical_cols.remove.
NumericalCols_NoRemove(t) == select_dtypes(t, NumberDtypes)

\* Lines 18 and 21-24: the numerical list after the MSSubClass override.
NumericalCols(t) ==
    LET cat == select_dtypes(t, ObjectDtypes)
        num == select_dtypes(t, NumberDtypes)
    IN  IF "MSSubClass" \in ColumnSet(t) /\ "MSSubClass" \notin Range(cat)
           /\ "MSSubClass" \in Range(num)
        THEN ListRemove(num, "MSSubClass") ELSE num

\* The comprehension without its filter.
ComparisonFeatures_KeepTarget(num) == num

\* Line 27: [col for col in numerical_cols if col != 'SalePrice']
ComparisonFeatures(num) == Remove(num, "SalePrice")

\* Line 28
AllFeatures(cat, numcmp) == cat \o numcmp

\* ------------------------------------------------------------------- state
VARIABLES
    df_raw,                              \* the table read_csv returned (line 11)
    df,                                  \* the cleaned table (line 14)
    categorical_cols,                    \* lines 17-22
    numerical_cols,                      \* lines 18-24
    numerical_features_for_comparison,   \* line 27
    all_features,                        \* line 28
    active_tab,                          \* the "tabs" component's active_tab
    value,                               \* dropdown id -> its value property
    figure,                              \* graph id -> its figure property
    pending,                             \* callbacks Dash has still to run
    event,                               \* the input whose change is being served
    invoked                              \* query callbacks run for that event

vars == <<df_raw, df, categorical_cols, numerical_cols,
          numerical_features_for_comparison, all_features,
          active_tab, value, figure, pending, event, invoked>>

data == <<df_raw, df, categorical_cols, numerical_cols,
          numerical_features_for_comparison, all_features>>

\* ------------------------------------------------------------------ layout
Tabs == {"tab-categorical", "tab-numerical"}

Dropdowns == {"categorical-dropdown", "comparison-dropdown",
              "x-axis-dropdown", "y-axis-dropdown"}

Graphs == {"comparison-plot", "categorical-count-plot",
           "scatter-plot", "sale-price-histogram"}

QueryCallbacks == {"update_comparison_plot", "update_categorical_count_plot",
                   "update_scatter_plot", "update_sale_price_histogram"}

\* The dropdowns render_tab_content puts in the layout for a tab.
TabDropdowns(tab) ==
    IF tab = "tab-categorical" THEN {"categorical-dropdown", "comparison-dropdown"}
    ELSE IF tab = "tab-numerical" THEN {"x-axis-dropdown", "y-axis-dropdown"}
    ELSE {}

\* The graphs render_tab_content puts in the layout for a tab.
TabGraphs(tab) ==
    IF tab = "tab-categorical" THEN {"comparison-plot", "categorical-count-plot"}
    ELSE IF tab = "tab-numerical" THEN {"scatter-plot", "sale-price-histogram"}
    ELSE {}

\* The options= list of each dcc.Dropdown.
Options(id) ==
    IF id = "categorical-dropdown" THEN categorical_cols
    ELSE IF id = "comparison-dropdown" THEN all_features \o <<"SalePrice">>
    ELSE IF id = "x-axis-dropdown" THEN numerical_features_for_comparison
    ELSE numerical_features_for_comparison \o <<"SalePrice">>

\* The value= default of each dcc.Dropdown.
DefaultValue(id) ==
    IF id = "categorical-dropdown" THEN "Neighborhood"
    ELSE IF id = "x-axis-dropdown" THEN "GrLivArea"
    ELSE "SalePrice"

\* The count plot wired to the comparison dropdown instead of the categorical one.
CallbackInputs_CountOnComparison(cb) ==
    IF cb = "render_tab_content" THEN {"tabs"}
    ELSE IF cb = "update_comparison_plot" THEN {"categorical-dropdown", "comparison-dropdown"}
    ELSE IF cb = "update_categorical_count_plot" THEN {"comparison-dropdown"}
    ELSE IF cb = "update_scatter_plot" THEN {"x-axis-dropdown", "y-axis-dropdown"}
    ELSE {"sale-price-histogram"}

\* The Input(...) declarations of the @app.callback decorators.
CallbackInputs(cb) ==
    IF cb = "render_tab_content" THEN {"tabs"}
    ELSE IF cb = "update_comparison_plot" THEN {"categorical-dropdown", "comparison-dropdown"}
    ELSE IF cb = "update_categorical_count_plot" THEN {"categorical-dropdown"}
    ELSE IF cb = "update_scatter_plot" THEN {"x-axis-dropdown", "y-axis-dropdown"}
    ELSE {"sale-price-histogram"}

\* The Output(...) declarations of the @app.callback decorators.
CallbackOutput(cb) ==
    IF cb = "render_tab_content" THEN "tab-content"
    ELSE IF cb = "update_comparison_plot" THEN "comparison-plot"
    ELSE IF cb = "update_categorical_count_plot" THEN "categorical-count-plot"
    ELSE IF cb = "update_scatter_plot" THEN "scatter-plot"
    ELSE "sale-price-histogram"

\* Dash runs every callback that declares the changed property as an Input.
Triggered(input) == {cb \in QueryCallbacks : input \in CallbackInputs(cb)}

\* Dash runs the callbacks of components a callback has just put in the layout.
InitialCallbacks(tab) ==
    {cb \in QueryCallbacks : CallbackInputs(cb) \subseteq (TabDropdowns(tab) \cup TabGraphs(tab))}

NoFigure == [kind |-> "none"]

\* --------------------------------------------------------- query functions
\* What Dash reports when a callback raises: the graph gets no figure.
Raised(exception, cb, args) == [kind |-> "error", error |-> exception, callback |-> cb, args |-> args]

\* df.groupby([a, b]).size().reset_index(name='Count'): one row per observed
\* pair of keys; groupby leaves out the rows with a missing key (dropna=True).
GroupBySize(t, a, b) ==
    LET xa   == Col(t, a).cells
        xb   == Col(t, b).cells
        rows == {i \in 1..NRows(t) : xa[i] # NaN /\ xb[i] # NaN}
        keys == {<<xa[i], xb[i]>> : i \in rows}
    IN  {[x |-> k[1], color |-> k[2],
          Count |-> Cardinality({i \in rows : xa[i] = k[1] /\ xb[i] = k[2]})] : k \in keys}

\* df[c].value_counts().reset_index(): one row per distinct non-missing value.
ValueCounts(t, c) ==
    LET xs == Col(t, c).cells
    IN  {[x |-> v, Count |-> Cardinality({i \in 1..NRows(t) : xs[i] = v})] :
            v \in {xs[i] : i \in 1..NRows(t)} \ {NaN}}

\* update_comparison_plot with the axes of its box plot exchanged.
ComparisonFigure_Swapped(categorical_col, comparison_col) ==
    LET args == <<categorical_col, comparison_col>>
    IN  IF comparison_col \in Range(categorical_cols)
        THEN IF categorical_col \notin ColumnSet(df)
             THEN Raised("KeyError", "update_comparison_plot", args)
             ELSE IF categorical_col = comparison_col
             THEN Raised("ValueError", "update_comparison_plot", args)
             ELSE [kind |-> "bar", x |-> categorical_col, y |-> "Count", color |-> comparison_col,
                   args |-> args, table |-> GroupBySize(df, categorical_col, comparison_col)]
        ELSE IF ~({categorical_col, comparison_col} \subseteq ColumnSet(df))
             THEN Raised("ValueError", "update_comparison_plot", args)
             ELSE [kind |-> "box", x |-> comparison_col, y |-> categorical_col, args |-> args,
                   xs |-> Col(df, comparison_col).cells, ys |-> Col(df, categorical_col).cells]

\* The body of update_comparison_plot (lines 127-135).
ComparisonFigure(categorical_col, comparison_col) ==
    LET args == <<categorical_col, comparison_col>>
    IN  IF comparison_col \in Range(categorical_cols)
        THEN IF categorical_col \notin ColumnSet(df)
             THEN Raised("KeyError", "update_comparison_plot", args)         \* groupby: no such key
             ELSE IF categorical_col = comparison_col
             THEN Raised("ValueError", "update_comparison_plot", args)       \* reset_index: cannot insert, already exists
             ELSE [kind |-> "bar", x |-> categorical_col, y |-> "Count", color |-> comparison_col,
                   args |-> args, table |-> GroupBySize(df, categorical_col, comparison_col)]
        ELSE IF ~({categorical_col, comparison_col} \subseteq ColumnSet(df))
             THEN Raised("ValueError", "update_comparison_plot", args)       \* px: not the name of a column
             ELSE [kind |-> "box", x |-> categorical_col, y |-> comparison_col, args |-> args,
                   xs |-> Col(df, categorical_col).cells, ys |-> Col(df, comparison_col).cells]

\* The body of update_categorical_count_plot (lines 144-149).
CountFigure(categorical_col) ==
    IF categorical_col \notin ColumnSet(df)
    THEN Raised("KeyError", "update_categorical_count_plot", <<categorical_col>>)
    ELSE [kind |-> "bar", x |-> categorical_col, y |-> "Count", args |-> <<categorical_col>>,
          table |-> ValueCounts(df, categorical_col)]

\* The body of update_scatter_plot (lines 159-161).
ScatterFigure(x_col, y_col) ==
    IF ~({x_col, y_col} \subseteq ColumnSet(df))
    THEN Raised("ValueError", "update_scatter_plot", <<x_col, y_col>>)
    ELSE [kind |-> "scatter", x |-> x_col, y |-> y_col, args |-> <<x_col, y_col>>,
          xs |-> Col(df, x_col).cells, ys |-> Col(df, y_col).cells]

nbins == 50

\* The histogram of the column selected for the x axis instead of SalePrice.
HistogramFigure_FollowsSelection(arg) ==
    LET col == IF value["x-axis-dropdown"] \in ColumnSet(df)
               THEN value["x-axis-dropdown"] ELSE "SalePrice"
    IN  IF col \notin ColumnSet(df)
        THEN Raised("ValueError", "update_sale_price_histogram", <<col>>)
        ELSE [kind |-> "histogram", x |-> col, nbins |-> 50, marginal |-> "box",
              args |-> <<col>>, xs |-> Col(df, col).cells]

\* The body of update_sale_price_histogram (lines 169-173); arg is its unused parameter _.
HistogramFigure(arg) ==
    IF "SalePrice" \notin ColumnSet(df)
    THEN Raised("ValueError", "update_sale_price_histogram", <<"SalePrice">>)
    ELSE [kind |-> "histogram", x |-> "SalePrice", nbins |-> nbins, marginal |-> "box",
          args |-> <<"SalePrice">>, xs |-> Col(df, "SalePrice").cells]

\* ------------------------------------------------------------------ actions
\* The module's top-level code has run and a browser has requested the page:
\* Dash is about to call render_tab_content for the default tab.
Init ==
    \E n \in 0..MaxRows : \E pick \in [Names -> ColumnChoices(n)] :
        /\ df_raw = read_csv(pick, n)
        /\ df = CleanColumns(df_raw)
        /\ categorical_cols = CategoricalCols(df)
        /\ numerical_cols = NumericalCols(df)
        /\ numerical_features_for_comparison = ComparisonFeatures(numerical_cols)
        /\ all_features = AllFeatures(categorical_cols, numerical_features_for_comparison)
        /\ active_tab = "tab-categorical"
        /\ value = [d \in Dropdowns |-> None]
        /\ figure = [g \in Graphs |-> NoFigure]
        /\ pending = {"render_tab_content"}
        /\ event = "load"
        /\ invoked = 0

\* render_tab_content(tab), lines 52-117: the tab's dropdowns are created with
\* their hardcoded values and its graphs are created empty; Dash then runs the
\* callbacks of the new components.
render_tab_content ==
    /\ "render_tab_content" \in pending
    /\ value' = [d \in Dropdowns |->
                    IF d \in TabDropdowns(active_tab) THEN DefaultValue(d) ELSE None]
    /\ figure' = [g \in Graphs |-> NoFigure]
    /\ pending' = InitialCallbacks(active_tab)
    /\ UNCHANGED <<data, active_tab, event, invoked>>

\* The user clicks the other tab.
SwitchTab(tab) ==
    /\ pending = {}
    /\ tab # active_tab
    /\ active_tab' = tab
    /\ pending' = {cb \in {"render_tab_content"} : "tabs" \in CallbackInputs(cb)}
    /\ event' = "tabs"
    /\ invoked' = 0
    /\ UNCHANGED <<data, value, figure>>

\* The user picks another option of a dropdown of the current tab.
SelectDropdown(id, v) ==
    /\ pending = {}
    /\ id \in TabDropdowns(active_tab)
    /\ value[id] # None
    /\ v \in Range(Options(id))
    /\ v # value[id]
    /\ value' = [value EXCEPT ![id] = v]
    /\ pending' = Triggered(id)
    /\ event' = id
    /\ invoked' = 0
    /\ UNCHANGED <<data, active_tab, figure>>

Ran(cb, result) ==
    /\ cb \in pending
    /\ figure' = [figure EXCEPT ![CallbackOutput(cb)] = result]
    /\ pending' = pending \ {cb}
    /\ invoked' = invoked + 1
    /\ UNCHANGED <<data, active_tab, value, event>>

update_comparison_plot ==
    Ran("update_comparison_plot",
        ComparisonFigure(value["categorical-dropdown"], value["comparison-dropdown"]))

update_categorical_count_plot ==
    Ran("update_categorical_count_plot", CountFigure(value["categorical-dropdown"]))

update_scatter_plot ==
    Ran("update_scatter_plot", ScatterFigure(value["x-axis-dropdown"], value["y-axis-dropdown"]))

\* Dash passes the graph's own id; the function accepts any argument.
HistogramArgs == {"sale-price-histogram"} \cup Names

update_sale_price_histogram(arg) ==
    Ran("update_sale_price_histogram", HistogramFigure(arg))

Next ==
    \/ render_tab_content
    \/ \E tab \in Tabs : SwitchTab(tab)
    \/ \E id \in Dropdowns, v \in Names : SelectDropdown(id, v)
    \/ update_comparison_plot
    \/ update_categorical_count_plot
    \/ update_scatter_plot
    \/ \E arg \in HistogramArgs : update_sale_price_histogram(arg)

Spec == Init /\ [][Next]_vars

\* ------------------------------------------------------- helpers of the claims
Occurrences(s, x) == Cardinality({i \in 1..Len(s) : s[i] = x})

NoDuplicates(s) == \A i, j \in 1..Len(s) : s[i] = s[j] => i = j

Position(s, x) == CHOOSE i \in 1..Len(s) : s[i] = x

RECURSIVE SumCounts(_)
SumCounts(table) ==
    IF table = {} THEN 0
    ELSE LET r == CHOOSE r \in table : TRUE IN r.Count + SumCounts(table \ {r})

RECURSIVE SumSizes(_, _)
SumSizes(groups, keys) ==
    IF keys = {} THEN 0
    ELSE LET k == CHOOSE k \in keys : TRUE IN groups[k] + SumSizes(groups, keys \ {k})

\* The groups a box trace is drawn as: one per distinct x value, holding the
\* points of that x whose y is a number.
BoxGroups(fig) ==
    [v \in (Range(fig.xs) \ {NaN}) |->
        Cardinality({i \in 1..Len(fig.xs) : fig.xs[i] = v /\ fig.ys[i] # NaN})]

\* The names a user interface built from the feature lists can offer.
FeatureCatalog == Range(all_features) \cup {"SalePrice"}

\* A user interaction has been served completely.
Served == event # "load" /\ pending = {}

\* --------------------------------------------------------------------- C1
\* C1: a column of the input whose missing fraction (missing / rows) is >= 0.5
\* is not a column of the cleaned dataset, one whose fraction is < 0.5 is
\* retained as it was read, and the cleaned dataset has no other column; in
\* every state, whatever UI events have happened.
C1_MissingnessThreshold ==
    /\ \A i \in 1..Len(df_raw) :
          LET col  == df_raw[i]
              rows == Len(col.cells)
          IN  rows > 0 =>
                /\ 2 * Missing(col) >= rows => col.name \notin ColumnSet(df)
                /\ 2 * Missing(col) < rows => col \in Range(df)
    /\ Range(df) \subseteq Range(df_raw)

\* A column with exactly half of its cells missing was dropped, another column
\* was kept, and a user interaction has been served since.
C1_Witness ==
    /\ \E i \in 1..Len(df_raw) :
          /\ Len(df_raw[i].cells) > 0
          /\ 2 * Missing(df_raw[i]) = Len(df_raw[i].cells)
          /\ df_raw[i].name \notin ColumnSet(df)
    /\ Len(df) > 0
    /\ Served
    /\ invoked > 0

\* --------------------------------------------------------------------- C2
\* C2 as stated: if MSSubClass is a column of the source then it is in
\* categorical_cols exactly once and not in numerical_cols.
C2_PresentInSourceIsCategorical ==
    "MSSubClass" \in ColumnSet(df_raw) =>
        /\ Occurrences(categorical_cols, "MSSubClass") = 1
        /\ "MSSubClass" \notin Range(numerical_cols)

\* C2 amended: if MSSubClass is a column of the source and the missingness rule
\* retains it, it is in categorical_cols exactly once and not in numerical_cols,
\* whatever its storage type; if it is absent or was dropped, it is in neither
\* list and the lists are the plain selections by storage type.
C2_RetainedIsCategorical ==
    /\ "MSSubClass" \in ColumnSet(df) =>
          /\ Occurrences(categorical_cols, "MSSubClass") = 1
          /\ "MSSubClass" \notin Range(numerical_cols)
    /\ "MSSubClass" \notin ColumnSet(df) =>
          /\ "MSSubClass" \notin Range(categorical_cols) \cup Range(numerical_cols)
          /\ categorical_cols = select_dtypes(df, {"object"})
          /\ numerical_cols = select_dtypes(df, {"int64", "float64"})

\* A retained integer MSSubClass was moved from the numerical to the end of the
\* categorical list, behind a text column.
C2_Witness ==
    /\ "MSSubClass" \in ColumnSet(df)
    /\ Col(df, "MSSubClass").dtype = "int64"
    /\ Len(categorical_cols) >= 2
    /\ categorical_cols[Len(categorical_cols)] = "MSSubClass"
    /\ Len(numerical_cols) >= 1

\* --------------------------------------------------------------------- C3
\* C3: numerical_features_for_comparison is numerical_cols without SalePrice,
\* in the same order, and never holds SalePrice; all_features is
\* categorical_cols followed by it; the two parts share no name and
\* all_features has no duplicate.
C3_FeatureLists ==
    LET nfc == numerical_features_for_comparison
    IN  /\ "SalePrice" \notin Range(nfc)
        /\ Range(nfc) = Range(numerical_cols) \ {"SalePrice"}
        /\ NoDuplicates(nfc)
        /\ \A i, j \in 1..Len(nfc) :
              i < j => Position(numerical_cols, nfc[i]) < Position(numerical_cols, nfc[j])
        /\ Len(all_features) = Len(categorical_cols) + Len(nfc)
        /\ \A i \in 1..Len(all_features) :
              all_features[i] = IF i <= Len(categorical_cols)
                                THEN categorical_cols[i]
                                ELSE nfc[i - Len(categorical_cols)]
        /\ Range(categorical_cols) \cap Range(nfc) = {}
        /\ NoDuplicates(all_features)

\* SalePrice is numerical and was left out; both parts of all_features are
\* non-empty and MSSubClass was moved between the lists.
C3_Witness ==
    /\ "SalePrice" \in Range(numerical_cols)
    /\ Len(numerical_features_for_comparison) >= 1
    /\ "MSSubClass" \in ColumnSet(df)
    /\ Col(df, "MSSubClass").dtype \in {"int64", "float64"}
    /\ Len(categorical_cols) >= 2

\* --------------------------------------------------------------------- C4
\* C4: every column of the cleaned dataset is in exactly one of
\* categorical_cols and numerical_cols.
C4_ExactlyOneKind ==
    \A c \in ColumnSet(df) :
        (c \in Range(categorical_cols)) # (c \in Range(numerical_cols))

\* --------------------------------------------------------------------- C5
\* C5: when both arguments of update_comparison_plot are in categorical_cols
\* (the same column twice included), its result is a table of counts per pair
\* of values, and the counts sum to the number of rows of the dataset.
C5_GroupedCountsSumToRows ==
    LET fig == figure["comparison-plot"]
    IN  (/\ fig.kind # "none"
         /\ fig.args[1] \in Range(categorical_cols)
         /\ fig.args[2] \in Range(categorical_cols))
        => /\ fig.kind = "bar"
           /\ SumCounts(fig.table) = NRows(df)

\* --------------------------------------------------------------------- C6
\* The case C6 is about: update_comparison_plot has run with a categorical
\* column and a column of the dataset that is not categorical.
C6_Case(fig) ==
    /\ fig.kind # "none"
    /\ fig.args[1] \in Range(categorical_cols)
    /\ fig.args[2] \in ColumnSet(df) \ Range(categorical_cols)

\* C6 as stated: the result is a box plot with one group per distinct value of
\* categorical_col, at least one group, and the group sizes sum to the row
\* count minus the number of rows whose comparison_col is missing.
C6_BoxGroupsSumToPresentY ==
    LET fig == figure["comparison-plot"]
    IN  C6_Case(fig) =>
          /\ fig.kind = "box"
          /\ DOMAIN BoxGroups(fig) = Range(Col(df, fig.args[1]).cells) \ {NaN}
          /\ Cardinality(DOMAIN BoxGroups(fig)) >= 1
          /\ SumSizes(BoxGroups(fig), DOMAIN BoxGroups(fig))
               = NRows(df) - Missing(Col(df, fig.args[2]))

\* C6 amended: the result is a box plot of comparison_col over categorical_col
\* with one group per distinct non-missing value of categorical_col, at least
\* one group, and the group sizes sum to the number of rows in which neither
\* categorical_col nor comparison_col is missing.
C6_BoxGroupsSumToPresentXY ==
    LET fig == figure["comparison-plot"]
    IN  C6_Case(fig) =>
          LET xcol == Col(df, fig.args[1]).cells
              ycol == Col(df, fig.args[2]).cells
          IN  /\ fig.kind = "box"
              /\ fig.x = fig.args[1] /\ fig.y = fig.args[2]
              /\ DOMAIN BoxGroups(fig) = Range(xcol) \ {NaN}
              /\ Cardinality(DOMAIN BoxGroups(fig)) >= 1
              /\ SumSizes(BoxGroups(fig), DOMAIN BoxGroups(fig))
                   = Cardinality({i \in 1..NRows(df) : xcol[i] # NaN /\ ycol[i] # NaN})

\* A box plot was produced for a categorical column with a missing cell in a
\* row whose comparison value is present, after the user picked the columns.
C6_Witness ==
    LET fig == figure["comparison-plot"]
    IN  /\ C6_Case(fig)
        /\ fig.kind = "box"
        /\ \E i \in 1..Len(fig.xs) : fig.xs[i] = NaN /\ fig.ys[i] # NaN
        /\ Served

\* --------------------------------------------------------------------- C7
\* C7: whatever the dropdown values and whatever argument the callback got, the
\* histogram is the same chart: column SalePrice of the dataset, nbins=50, a
\* marginal box plot (or the same error when the dataset has no SalePrice).
C7_HistogramIgnoresSelection ==
    LET fig == figure["sale-price-histogram"]
    IN  fig.kind # "none" =>
          IF "SalePrice" \in ColumnSet(df)
          THEN /\ fig.kind = "histogram"
               /\ fig.x = "SalePrice"
               /\ fig.nbins = 50
               /\ fig.marginal = "box"
               /\ fig.xs = Col(df, "SalePrice").cells
          ELSE fig.kind = "error"

\* The histogram is shown and the user has since changed an axis dropdown to a
\* value other than its default.
C7_Witness ==
    /\ figure["sale-price-histogram"].kind = "histogram"
    /\ event \in {"x-axis-dropdown", "y-axis-dropdown"}
    /\ pending = {}
    /\ value["y-axis-dropdown"] # "SalePrice"

\* --------------------------------------------------------------------- C8
\* C8 as stated: a served user interaction invoked exactly one query callback.
C8_OneCallbackPerInteraction == Served => invoked = 1

\* C8 amended: a change of the comparison, x-axis or y-axis dropdown invokes
\* exactly one query callback; a change of the categorical dropdown invokes
\* exactly two (update_comparison_plot and update_categorical_count_plot); a
\* tab switch invokes render_tab_content and then exactly two query callbacks,
\* those of the two graphs of the new tab.
C8_CallbacksPerInteraction ==
    /\ Served => invoked = IF event \in {"tabs", "categorical-dropdown"} THEN 2 ELSE 1
    /\ (event = "categorical-dropdown" /\ invoked = 0) =>
          pending = {"update_comparison_plot", "update_categorical_count_plot"}
    /\ (event = "tabs" /\ invoked = 0 /\ "render_tab_content" \notin pending) =>
          pending = IF active_tab = "tab-categorical"
                    THEN {"update_comparison_plot", "update_categorical_count_plot"}
                    ELSE {"update_scatter_plot", "update_sale_price_histogram"}

\* A change of the categorical dropdown has been served by two callbacks.
C8_Witness ==
    /\ Served
    /\ event = "categorical-dropdown"
    /\ invoked = 2
    /\ figure["comparison-plot"].kind # "none"
    /\ figure["categorical-count-plot"].kind # "none"

\* --------------------------------------------------------------------- C9
\* C9: a query callback that references a column name absent from the cleaned
\* dataset or from the feature catalog ends in an error.
C9_UnknownColumnFails ==
    \A g \in Graphs :
        LET fig == figure[g]
        IN  (/\ fig.kind # "none"
             /\ \E i \in 1..Len(fig.args) :
                    fig.args[i] \notin ColumnSet(df) \/ fig.args[i] \notin FeatureCatalog)
            => fig.kind = "error"

\* -------------------------------------------------------------------- C10
\* C10: for an input with a numeric SalePrice column, the value of every
\* dropdown in the layout, the hardcoded defaults included, is one of its
\* options, and every column name a query callback is given is a column of
\* the cleaned dataset.
C10_ValuesAreOptions ==
    (/\ "SalePrice" \in ColumnSet(df_raw)
     /\ Col(df_raw, "SalePrice").dtype \in {"int64", "float64"})
    => /\ \A d \in Dropdowns :
             value[d] # None => value[d] \in Range(Options(d))
       /\ \A g \in Graphs :
             figure[g].kind # "none" =>
                 \A i \in 1..Len(figure[g].args) : figure[g].args[i] \in ColumnSet(df)

====
